---- MODULE Spec2Model ----
(***************************************************************************)
(* Model of the GUI session of mycroft-gui: the handler of the frames of   *)
(* the secondary ("gui") channel, AbstractSkillView::                      *)
(* onGuiSocketMessageReceived, and the three collections it mutates: the   *)
(* active skills list, the per-skill session data and the delegates.       *)
(*                                                                         *)
(* A frame arrives (one Arrive action per message type draws its fields    *)
(* from small sets), the handler runs as ONE step on it, and the handler   *)
(* returns to the event loop.  `frame' is the frame being handled and      *)
(* `out' the signals the handler emitted, so that a claim about a message  *)
(* can be stated over one handler step.                                    *)
(*                                                                         *)
(* The two connections are modelled next to it: the primary socket of      *)
(* MycroftController with its reconnect timer, and the gui socket of       *)
(* AbstractSkillView with its own timer and url.  Every signal is          *)
(* delivered synchronously, so one socket event and all the slots it       *)
(* reaches are one step; `ev' records what that step did.                  *)
(*                                                                         *)
(* MycroftController::onTextMessageReceived, the handler of the frames of  *)
(* the primary socket, is one step as well; `received' keeps the frames    *)
(* that arrived, as they were sent.                                        *)
(***************************************************************************)
EXTENDS Integers, Sequences, FiniteSets, TLC

VARIABLES
    m_skills,      \* ActiveSkillsModel: the ordered list of active skill ids
    m_skillData,   \* QHash<QString, SessionDataMap *>: skill id -> (property -> value)
    m_delegates,   \* ActiveSkillsModel: (skill id, qml url) -> number of registered delegates
    frame,         \* the text message delivered by the gui socket
    out,           \* what the handler did with it: signals emitted, objects deleted
    pc,            \* "idle" | "recv" | "done" | "crashed"
    m_webSocket,          \* MycroftController: state() of the primary socket
    m_reconnectTimer,     \* MycroftController: isActive() of its reconnect timer
    started,              \* number of times the backend loader was launched
    m_guiWebSocket,       \* AbstractSkillView: state() of the gui socket
    m_guiReconnectTimer,  \* AbstractSkillView: isActive() of its m_reconnectTimer
    m_url,                \* AbstractSkillView: the gui url, "" when not valid
    ev,                   \* what the last connection step did
    m_isListening,        \* MycroftController
    m_isSpeaking,         \* MycroftController
    m_currentSkill,       \* MycroftController: a string, as its code points
    received              \* history: the text messages of the primary socket

vars == <<m_skills, m_skillData, m_delegates, frame, out, pc,
          m_webSocket, m_reconnectTimer, started,
          m_guiWebSocket, m_guiReconnectTimer, m_url, ev,
          m_isListening, m_isSpeaking, m_currentSkill, received>>

core == <<m_skills, m_skillData, m_delegates>>

\* what MycroftController mirrors of the assistant, and what it was sent
assistant == <<m_isListening, m_isSpeaking, m_currentSkill, received>>

\* the state of the two connections and of the controller
conn == <<m_webSocket, m_reconnectTimer, started,
          m_guiWebSocket, m_guiReconnectTimer, m_url, ev, assistant>>

\* the state of the frame handler
session == <<m_skills, m_skillData, m_delegates, frame, out, pc>>

----------------------------------------------------------------------------
(* Bounds of the model                                                     *)

\* longest skill list carried by one mycroft.session.insert
MaxInsert == 2
\* longest array carried as a property value by one mycroft.session.set
MaxRows == 2
\* position, from, to and items_number are drawn from -1 .. MaxPos
MaxPos == 3

SkillIds == {"a", "b"}
Urls == {"u1", "u2"}
Props == {"p", "q"}
EventNames == {"ev"}

\* the namespace of the active skills list
ActiveSkillsNamespace == "mycroft.system.active_skills"

Positions == (0 - 1) .. MaxPos

RECURSIVE SeqsUpTo(_, _)
SeqsUpTo(S, n) ==
    IF n = 0 THEN {<<>>}
    ELSE LET shorter == SeqsUpTo(S, n - 1)
         IN  shorter \cup {Append(s, x) : s \in {t \in shorter : Len(t) = n - 1}, x \in S}

Range(s) == {s[i] : i \in 1 .. Len(s)}

Min(x, y) == IF x < y THEN x ELSE y

----------------------------------------------------------------------------
(* JSON values carried by the frames                                       *)

\* an entry of a property array: a row object, or something that is no object
RowObjects == {"r1", "r2"}
NonObjects == {"x"}
Entries == RowObjects \cup NonObjects

Scalar(s) == [kind |-> "scalar", s |-> s, items |-> <<>>]
Array(items) == [kind |-> "array", s |-> "", items |-> items]
\* a SessionDataModel holding rows
Model(rows) == [kind |-> "model", s |-> "", items |-> rows]

EmptyMap == [k \in {} |-> Scalar("")]

\* an item of the data array of mycroft.session.insert
SkillItem(id) == [obj |-> TRUE, keys |-> {"skill_id"}, isString |-> TRUE, value |-> id]
NonObjectItem == [obj |-> FALSE, keys |-> {}, isString |-> FALSE, value |-> ""]
WrongKeyItem == [obj |-> TRUE, keys |-> {"name"}, isString |-> TRUE, value |-> "a"]
ExtraKeyItem == [obj |-> TRUE, keys |-> {"skill_id", "name"}, isString |-> TRUE, value |-> "a"]
\* {"skill_id": 5}: QJsonValue::toString() of a non-string is the empty string
NonStringItem == [obj |-> TRUE, keys |-> {"skill_id"}, isString |-> FALSE, value |-> ""]

\* the items of the frames of Spec
SmallInsertItems == {SkillItem(id) : id \in SkillIds} \cup {NonObjectItem}

\* the items of the frames of SpecList, which has one more skill
ListSkillIds == SkillIds \cup {"c"}

InsertItems ==
    {SkillItem(id) : id \in ListSkillIds}
        \cup {NonObjectItem, WrongKeyItem, ExtraKeyItem, NonStringItem}

\* a frame; a field the message does not carry has the value the decoder
\* gives a missing field: "" for toString(), 0 for toInt(), empty for toMap()
NoFrame ==
    [valid |-> FALSE, type |-> "", namespace |-> "", data |-> EmptyMap,
     property |-> "", gui_url |-> "", position |-> 0, items_number |-> 0,
     from |-> 0, to |-> 0, event_name |-> "", skills |-> <<>>]

Message(type, namespace) ==
    [NoFrame EXCEPT !.valid = TRUE, !.type = type, !.namespace = namespace]

\* nothing emitted, nothing deleted
NoOut ==
    [accepted |-> FALSE, erased |-> {}, instantiated |-> {},
     currentRequested |-> {}, event |-> {},
     created |-> {}, cleared |-> {}, deleted |-> {}]

DelegateKeys == SkillIds \X Urls

\* the urls setUrl is called with; "" is a url that is not valid
GuiUrls == {"ws://a", "ws://b"}

\* nothing happened on the connections
NoEv ==
    [name |-> "", notified |-> <<>>, opens |-> {}, closed |-> FALSE,
     stopped |-> FALSE, sent |-> FALSE, signals |-> {}, cleared |-> FALSE]

----------------------------------------------------------------------------

\* the collections of a new AbstractSkillView, no frame delivered
InitSession ==
    /\ m_skills = <<>>
    /\ m_skillData = EmptyMap
    /\ m_delegates = [k \in DelegateKeys |-> 0]
    /\ frame = NoFrame
    /\ out = NoOut
    /\ pc = "idle"

\* the fields of a new MycroftController, no text message received
InitAssistant ==
    /\ m_isListening = FALSE
    /\ m_isSpeaking = FALSE
    /\ m_currentSkill = <<>>
    /\ received = <<>>

\* both objects constructed: no socket opened, no timer started, no url
Init ==
    /\ InitSession
    /\ InitAssistant
    /\ m_webSocket = "UnconnectedState"
    /\ m_reconnectTimer = FALSE
    /\ started = 0
    /\ m_guiWebSocket = "UnconnectedState"
    /\ m_guiReconnectTimer = FALSE
    /\ m_url = ""
    /\ ev = NoEv

\* both connections established: start(), the primary socket connected,
\* setUrl() and the gui socket connected
InitOpen ==
    /\ InitSession
    /\ InitAssistant
    /\ m_webSocket = "ConnectedState"
    /\ m_reconnectTimer = FALSE
    /\ started = 1
    /\ m_guiWebSocket = "ConnectedState"
    /\ m_guiReconnectTimer = FALSE
    /\ m_url = "ws://a"
    /\ ev = [NoEv EXCEPT !.name = "guiConnected"]

----------------------------------------------------------------------------
(* ActiveSkillsModel (activeskillsmodel.cpp)                               *)

rowCount == Len(m_skills)

\* skillIndex(skillId).isValid()
skillIndexValid(skillId) == \E i \in 1 .. Len(m_skills) : m_skills[i] = skillId

\* data(index(row, 0)).toString(): the empty string for an invalid index
data(row) == IF row + 1 \in 1 .. Len(m_skills) THEN m_skills[row + 1] ELSE ""

\* the skill ids of skillList that are not active yet, each once, in order
RECURSIVE newSkills(_, _)
newSkills(skillList, present) ==
    IF skillList = <<>> THEN <<>>
    ELSE IF Head(skillList) \in present
         THEN newSkills(Tail(skillList), present)
         ELSE <<Head(skillList)>>
                  \o newSkills(Tail(skillList), present \cup {Head(skillList)})

\* insertSkills that inserts the list as it comes
insertSkills_asGiven(position, skillList) ==
    SubSeq(m_skills, 1, position)
        \o skillList
        \o SubSeq(m_skills, position + 1, Len(m_skills))

\* insertSkills(position, skillList): the list afterwards
insertSkills(position, skillList) ==
    SubSeq(m_skills, 1, position)
        \o newSkills(skillList, Range(m_skills))
        \o SubSeq(m_skills, position + 1, Len(m_skills))

\* removeRows(row, count): the list afterwards
removeRows(row, count) ==
    SubSeq(m_skills, 1, row) \o SubSeq(m_skills, row + count + 1, Len(m_skills))

\* removeRows(row, count) destroys the delegates of the skills it removes
delegatesAfterRemove(row, count) ==
    LET removed == Range(SubSeq(m_skills, row + 1, row + count))
    IN  [k \in DelegateKeys |-> IF k[1] \in removed THEN 0 ELSE m_delegates[k]]

\* moveRows(parent, from, count, parent, to): the list afterwards
moveRows(from, count, to) ==
    LET block == SubSeq(m_skills, from + 1, from + count)
        rest == SubSeq(m_skills, 1, from) \o SubSeq(m_skills, from + count + 1, Len(m_skills))
        at == Min(to, Len(rest))
    IN  SubSeq(rest, 1, at) \o block \o SubSeq(rest, at + 1, Len(rest))

\* delegateForSkill(skillId, qmlUrl) is not null
delegateForSkill(skillId, qmlUrl) ==
    <<skillId, qmlUrl>> \in DelegateKeys /\ m_delegates[<<skillId, qmlUrl>>] > 0

\* insertDelegate(delegate): the registry afterwards
insertDelegate(skillId, qmlUrl) ==
    [m_delegates EXCEPT ![<<skillId, qmlUrl>>] = @ + 1]

\* delegatesForSkill(skillId): every delegate for the empty skill id
delegatesForSkill(skillId) ==
    {k \in DelegateKeys : m_delegates[k] > 0 /\ (skillId = "" \/ k[1] = skillId)}

----------------------------------------------------------------------------
(* SessionDataMap (sessiondatamap.cpp)                                     *)

\* insertAndNotify(key, value)
insertAndNotify(map, key, value) ==
    [k \in DOMAIN map \cup {key} |-> IF k = key THEN value ELSE map[k]]

\* clearAndNotify(key)
clearAndNotify(map, key) == [k \in DOMAIN map \ {key} |-> map[k]]

----------------------------------------------------------------------------
(* abstractskillview.cpp: helpers                                          *)

\* sessionDataForSkill without the test that the skill is active
sessionDataForSkill_anySkill(skillId) ==
    IF skillId \in DOMAIN m_skillData THEN m_skillData
    ELSE [k \in DOMAIN m_skillData \cup {skillId} |->
             IF k = skillId THEN EmptyMap ELSE m_skillData[k]]

\* m_skillData after sessionDataForSkill(skillId); the returned map is
\* m_skillData'[skillId], or null when skillId is not in the domain
sessionDataForSkill(skillId) ==
    IF skillId \in DOMAIN m_skillData THEN m_skillData
    ELSE IF skillIndexValid(skillId)
         THEN [k \in DOMAIN m_skillData \cup {skillId} |->
                  IF k = skillId THEN EmptyMap ELSE m_skillData[k]]
         ELSE m_skillData

\* item.canConvert<QVariantMap>()
canConvertMap(item) == item \in RowObjects

\* the rows before the first entry that is no object
variantListToOrderedMap(list) ==
    LET RECURSIVE loop(_, _)
        loop(i, ordMap) ==
            IF i > Len(list) THEN ordMap
            ELSE IF ~canConvertMap(list[i]) THEN ordMap
                 ELSE loop(i + 1, Append(ordMap, list[i]))
    IN  loop(1, <<>>)

\* the skill ids of the items, or nothing when one item is malformed
jsonModelToStringList(key, array) ==
    LET RECURSIVE loop(_, _)
        loop(i, items) ==
            IF i > Len(array) THEN items
            ELSE IF ~array[i].obj THEN <<>>
                 ELSE IF Cardinality(array[i].keys) # 1 \/ key \notin array[i].keys THEN <<>>
                      ELSE loop(i + 1, Append(items, array[i].value))
    IN  loop(1, <<>>)

\* i.value().value<QVariantList>(): empty for what is no array
toVariantList(value) == IF value.kind = "array" THEN value.items ELSE <<>>

\* one round of the loop of mycroft.session.set: the map after property key
setProperty(map, key, value) ==
    LET list == variantListToOrderedMap(toVariantList(value))
    IN  IF list # <<>>
        THEN insertAndNotify(map, key, Model(list))
        ELSE insertAndNotify(map, key, value)

\* dm of the loop: the property holds a SessionDataModel
holdsModel(map, key) == key \in DOMAIN map /\ map[key].kind = "model"

\* the properties for which the loop makes a new SessionDataModel, clears
\* and refills the one the property holds, deletes the one it holds
modelsCreated(map, values) ==
    {key \in DOMAIN values :
        /\ variantListToOrderedMap(toVariantList(values[key])) # <<>>
        /\ ~holdsModel(map, key)}

modelsCleared(map, values) ==
    {key \in DOMAIN values :
        /\ variantListToOrderedMap(toVariantList(values[key])) # <<>>
        /\ holdsModel(map, key)}

modelsDeleted(map, values) ==
    {key \in DOMAIN values :
        /\ variantListToOrderedMap(toVariantList(values[key])) = <<>>
        /\ holdsModel(map, key)}

RECURSIVE setProperties(_, _, _)
setProperties(map, values, keys) ==
    IF keys = {} THEN map
    ELSE LET key == CHOOSE k \in keys : TRUE
         IN  setProperties(setProperty(map, key, values[key]), values, keys \ {key})

----------------------------------------------------------------------------
(* Frames arriving on the gui socket                                       *)

Values == {Scalar("s1")} \cup {Array(a) : a \in SeqsUpTo(Entries, MaxRows)}

\* the values of the frames of Spec: a scalar, one row, one entry that is no object
SmallValues == {Scalar("s1"), Array(<<"r1">>), Array(<<"x">>)}

DataMaps(props, values) == UNION {[D -> values] : D \in SUBSET props}

\* the socket hands the frame to the handler
\* textMessageReceived of the gui socket, emitted only while it is connected
Delivered ==
    /\ m_guiWebSocket = "ConnectedState"
    /\ out' = NoOut
    /\ pc' = "recv"
    /\ UNCHANGED core
    /\ UNCHANGED conn

ArriveSet ==
    /\ pc = "idle"
    /\ \E ns \in SkillIds \cup {""}, d \in DataMaps({"p"}, SmallValues) :
           frame' = [Message("mycroft.session.set", ns) EXCEPT !.data = d]
    /\ Delivered

ArriveSetRows ==
    /\ pc = "idle"
    /\ \E ns \in SkillIds \cup {""}, d \in DataMaps({"p"}, Values) :
           frame' = [Message("mycroft.session.set", ns) EXCEPT !.data = d]
    /\ Delivered

ArriveDelete ==
    /\ pc = "idle"
    /\ \E ns \in SkillIds \cup {""}, property \in Props \cup {""} :
           frame' = [Message("mycroft.session.delete", ns) EXCEPT !.property = property]
    /\ Delivered

ArriveShow ==
    /\ pc = "idle"
    /\ \E ns \in SkillIds \cup {""}, url \in Urls \cup {""} :
           frame' = [Message("mycroft.gui.show", ns) EXCEPT !.gui_url = url]
    /\ Delivered

ArriveInsert ==
    /\ pc = "idle"
    /\ \E position \in Positions, skills \in SeqsUpTo(SmallInsertItems, MaxInsert) :
           frame' = [Message("mycroft.session.insert", ActiveSkillsNamespace)
                        EXCEPT !.position = position, !.skills = skills]
    /\ Delivered

ArriveInsertItems ==
    /\ pc = "idle"
    /\ \E position \in Positions, skills \in SeqsUpTo(InsertItems, MaxInsert) :
           frame' = [Message("mycroft.session.insert", ActiveSkillsNamespace)
                        EXCEPT !.position = position, !.skills = skills]
    /\ Delivered

ArriveRemove ==
    /\ pc = "idle"
    /\ \E position \in Positions, itemsNumber \in Positions :
           frame' = [Message("mycroft.session.remove", ActiveSkillsNamespace)
                        EXCEPT !.position = position, !.items_number = itemsNumber]
    /\ Delivered

ArriveMove ==
    /\ pc = "idle"
    /\ \E from \in Positions, to \in Positions, itemsNumber \in Positions :
           frame' = [Message("mycroft.session.move", ActiveSkillsNamespace)
                        EXCEPT !.from = from, !.to = to, !.items_number = itemsNumber]
    /\ Delivered

ArriveEvent ==
    /\ pc = "idle"
    /\ \E ns \in SkillIds \cup {"", "system"}, eventName \in EventNames \cup {""} :
           frame' = [Message("mycroft.events.triggered", ns) EXCEPT !.event_name = eventName]
    /\ Delivered

\* what is no message of the protocol: text that is no JSON, no type, a type
\* nobody handles, an insert or a remove of another namespace
ArriveOther ==
    /\ pc = "idle"
    /\ frame' \in {NoFrame,
                   Message("", ""),
                   Message("mycroft.unknown", "a"),
                   [Message("mycroft.session.insert", "a") EXCEPT !.skills = <<SkillItem("a")>>],
                   Message("mycroft.session.remove", "a")}
    /\ Delivered

----------------------------------------------------------------------------
(* AbstractSkillView::onGuiSocketMessageReceived, one branch per type      *)

Done(o) ==
    /\ out' = o
    /\ pc' = "done"
    /\ frame' = frame
    /\ UNCHANGED conn

Accepted == [NoOut EXCEPT !.accepted = TRUE]

\* doc.isEmpty() or type.isEmpty()
Undecodable == ~frame.valid \/ frame.type = ""

Dropped ==
    /\ pc = "recv"
    /\ Undecodable
    /\ Done(NoOut)
    /\ UNCHANGED core

\* the checks of mycroft.session.set without the one of empty data
SetAccepted_emptyData(skillId, values) ==
    /\ skillId # ""
    /\ skillIndexValid(skillId)

\* the checks of mycroft.session.set
SetAccepted(skillId, values) ==
    /\ skillId # ""
    /\ skillIndexValid(skillId)
    /\ DOMAIN values # {}

SessionSet ==
    /\ pc = "recv"
    /\ ~Undecodable
    /\ frame.type = "mycroft.session.set"
    /\ LET skillId == frame.namespace
       IN  IF SetAccepted(skillId, frame.data)
           THEN LET skillData == sessionDataForSkill(skillId)
                    map == skillData[skillId]
                IN  /\ m_skillData' =
                           [skillData EXCEPT
                               ![skillId] = setProperties(map, frame.data, DOMAIN frame.data)]
                    /\ Done([Accepted EXCEPT
                                !.created = modelsCreated(map, frame.data),
                                !.cleared = modelsCleared(map, frame.data),
                                !.deleted = modelsDeleted(map, frame.data)])
           ELSE /\ UNCHANGED m_skillData
                /\ Done(NoOut)
    /\ UNCHANGED <<m_skills, m_delegates>>

\* the checks of mycroft.session.delete
DeleteAccepted(skillId, property) ==
    /\ skillId # ""
    /\ skillIndexValid(skillId)
    /\ property # ""

SessionDelete ==
    /\ pc = "recv"
    /\ ~Undecodable
    /\ frame.type = "mycroft.session.delete"
    /\ LET skillId == frame.namespace
       IN  IF DeleteAccepted(skillId, frame.property)
           THEN LET skillData == sessionDataForSkill(skillId)
                IN  /\ m_skillData' =
                           [skillData EXCEPT ![skillId] = clearAndNotify(@, frame.property)]
                    /\ Done(Accepted)
           ELSE /\ UNCHANGED m_skillData
                /\ Done(NoOut)
    /\ UNCHANGED <<m_skills, m_delegates>>

\* the checks of mycroft.gui.show
ShowAccepted(skillId, delegateUrl) ==
    /\ skillId # ""
    /\ delegateUrl # ""

\* a show that never finds the delegate it registered
existingDelegate_none(skillId, delegateUrl) == FALSE

\* if (delegate): the delegate of the pair is registered already
existingDelegate(skillId, delegateUrl) == delegateForSkill(skillId, delegateUrl)

\* what beginCreate() of the component of the url gives
TemplateResults == {"delegate", "error", "notDelegate"}

GuiShow ==
    /\ pc = "recv"
    /\ ~Undecodable
    /\ frame.type = "mycroft.gui.show"
    /\ LET skillId == frame.namespace
           url == frame.gui_url
           key == <<skillId, url>>
       IN  IF ~ShowAccepted(skillId, url)
           THEN /\ Done(NoOut)
                /\ UNCHANGED <<m_skillData, m_delegates>>
           ELSE IF existingDelegate(skillId, url)
           THEN /\ Done([Accepted EXCEPT !.currentRequested = {key}])
                /\ UNCHANGED <<m_skillData, m_delegates>>
           ELSE \E result \in TemplateResults :
                    \/ /\ result = "delegate"
                       /\ m_skillData' = sessionDataForSkill(skillId)
                       /\ m_delegates' = insertDelegate(skillId, url)
                       /\ Done([Accepted EXCEPT !.instantiated = {key},
                                                !.currentRequested = {key}])
                    \/ /\ result = "error"
                       /\ Done([Accepted EXCEPT !.instantiated = {key}])
                       /\ UNCHANGED <<m_skillData, m_delegates>>
                    \* delegate->deleteLater() through the null pointer:
                    \* the call returns, or the process dies
                    \/ /\ result = "notDelegate"
                       /\ out' = [Accepted EXCEPT !.instantiated = {key}]
                       /\ frame' = frame
                       /\ pc' \in {"done", "crashed"}
                       /\ UNCHANGED <<m_skillData, m_delegates>>
                       /\ UNCHANGED conn
    /\ UNCHANGED m_skills

\* the checks of mycroft.session.insert
InsertAccepted(position, skillList) ==
    /\ ~(position < 0 \/ position > rowCount)
    /\ skillList # <<>>

SessionInsert ==
    /\ pc = "recv"
    /\ ~Undecodable
    /\ frame.type = "mycroft.session.insert"
    /\ frame.namespace = ActiveSkillsNamespace
    /\ LET skillList == jsonModelToStringList("skill_id", frame.skills)
       IN  IF InsertAccepted(frame.position, skillList)
           THEN /\ m_skills' = insertSkills(frame.position, skillList)
                /\ Done(Accepted)
           ELSE /\ UNCHANGED m_skills
                /\ Done(NoOut)
    /\ UNCHANGED <<m_skillData, m_delegates>>

\* the checks of mycroft.session.remove
RemoveAccepted(position, itemsNumber) ==
    /\ ~(position < 0 \/ position > rowCount - 1)
    /\ ~(itemsNumber < 0 \/ itemsNumber > rowCount - position - 1)

\* the loop that drops the session data of the skills about to be removed
removedSkills(position, itemsNumber) ==
    {data(position + i) : i \in 0 .. itemsNumber - 1}

SessionRemove ==
    /\ pc = "recv"
    /\ ~Undecodable
    /\ frame.type = "mycroft.session.remove"
    /\ frame.namespace = ActiveSkillsNamespace
    /\ LET position == frame.position
           itemsNumber == frame.items_number
       IN  IF RemoveAccepted(position, itemsNumber)
           THEN LET gone == removedSkills(position, itemsNumber)
                IN  /\ m_skillData' =
                           [k \in DOMAIN m_skillData \ gone |-> m_skillData[k]]
                    /\ m_skills' = removeRows(position, itemsNumber)
                    /\ m_delegates' = delegatesAfterRemove(position, itemsNumber)
                    /\ Done([Accepted EXCEPT !.erased = gone \cap DOMAIN m_skillData])
           ELSE /\ UNCHANGED core
                /\ Done(NoOut)

\* the checks of mycroft.session.move
MoveAccepted(from, to, itemsNumber) ==
    /\ ~(from < 0 \/ from > rowCount - 1)
    /\ ~(to < 0 \/ to > rowCount - 1)
    /\ ~(itemsNumber <= 0 \/ itemsNumber > rowCount - from)

SessionMove ==
    /\ pc = "recv"
    /\ ~Undecodable
    /\ frame.type = "mycroft.session.move"
    /\ IF MoveAccepted(frame.from, frame.to, frame.items_number)
       THEN /\ m_skills' = moveRows(frame.from, frame.items_number, frame.to)
            /\ Done(Accepted)
       ELSE /\ UNCHANGED m_skills
            /\ Done(NoOut)
    /\ UNCHANGED <<m_skillData, m_delegates>>

\* the checks of mycroft.events.triggered without the one that the skill exists
EventAccepted_anySkill(skillOrSystem, eventName) ==
    /\ skillOrSystem # ""
    /\ eventName # ""

\* the checks of mycroft.events.triggered
EventAccepted(skillOrSystem, eventName) ==
    /\ skillOrSystem # ""
    /\ ~(skillOrSystem # "system" /\ ~skillIndexValid(skillOrSystem))
    /\ eventName # ""

EventsTriggered ==
    /\ pc = "recv"
    /\ ~Undecodable
    /\ frame.type = "mycroft.events.triggered"
    /\ LET skillOrSystem == frame.namespace
       IN  IF EventAccepted(skillOrSystem, frame.event_name)
           THEN Done([Accepted EXCEPT
                         !.event = delegatesForSkill(
                                       IF skillOrSystem = "system" THEN "" ELSE skillOrSystem)])
           ELSE Done(NoOut)
    /\ UNCHANGED core

HandledTypes ==
    {"mycroft.session.set", "mycroft.session.delete", "mycroft.gui.show",
     "mycroft.session.move", "mycroft.events.triggered"}

\* no branch of the chain matches
Unhandled ==
    /\ pc = "recv"
    /\ ~Undecodable
    /\ frame.type \notin HandledTypes
    /\ ~(frame.type \in {"mycroft.session.insert", "mycroft.session.remove"}
            /\ frame.namespace = ActiveSkillsNamespace)
    /\ Done(NoOut)
    /\ UNCHANGED core

onGuiSocketMessageReceived ==
    \/ Dropped
    \/ SessionSet
    \/ SessionDelete
    \/ GuiShow
    \/ SessionInsert
    \/ SessionRemove
    \/ SessionMove
    \/ EventsTriggered
    \/ Unhandled

\* the handler has returned: the socket delivers the next frame
Return ==
    /\ pc = "done"
    /\ pc' = "idle"
    /\ frame' = NoFrame
    /\ out' = NoOut
    /\ UNCHANGED core
    /\ UNCHANGED conn

Next ==
    \/ ArriveSet
    \/ ArriveDelete
    \/ ArriveShow
    \/ ArriveInsert
    \/ ArriveRemove
    \/ ArriveMove
    \/ ArriveEvent
    \/ ArriveOther
    \/ onGuiSocketMessageReceived
    \/ Return

Spec == InitOpen /\ [][Next]_vars

\* the active skills list alone, with more skills and every kind of item
NextList ==
    \/ ArriveInsertItems
    \/ ArriveRemove
    \/ ArriveMove
    \/ ArriveOther
    \/ Dropped
    \/ SessionInsert
    \/ SessionRemove
    \/ SessionMove
    \/ Unhandled
    \/ Return

SpecList == InitOpen /\ [][NextList]_vars

\* the session data alone, with every array up to MaxRows entries
NextRows ==
    \/ ArriveSetRows
    \/ ArriveDelete
    \/ ArriveInsert
    \/ ArriveRemove
    \/ SessionSet
    \/ SessionDelete
    \/ SessionInsert
    \/ SessionRemove
    \/ Return

SpecRows == InitOpen /\ [][NextRows]_vars

----------------------------------------------------------------------------
(* The two connections: MycroftController and AbstractSkillView            *)

\* start() is called at most this many times
MaxStarts == 2

\* MycroftController::status() without the check of the timer
MycroftController_status_transportOnly(timerActive, state) ==
    CASE state \in {"ConnectingState", "BoundState", "HostLookupState"} -> "Connecting"
      [] state = "UnconnectedState" -> "Closed"
      [] state = "ConnectedState" -> "Open"
      [] state = "ClosingState" -> "Closing"
      [] OTHER -> "Connecting"

\* MycroftController::status()
MycroftController_status(timerActive, state) ==
    IF timerActive
    THEN "Connecting"
    ELSE CASE state \in {"ConnectingState", "BoundState", "HostLookupState"} -> "Connecting"
           [] state = "UnconnectedState" -> "Closed"
           [] state = "ConnectedState" -> "Open"
           [] state = "ClosingState" -> "Closing"
           [] OTHER -> "Connecting"

\* AbstractSkillView::status()
AbstractSkillView_status(timerActive, state) ==
    IF timerActive
    THEN "Connecting"
    ELSE CASE state \in {"ConnectingState", "BoundState", "HostLookupState"} -> "Connecting"
           [] state = "UnconnectedState" -> "Closed"
           [] state = "ConnectedState" -> "Open"
           [] state = "ClosingState" -> "Closing"
           [] OTHER -> "Connecting"

\* m_controller->status() and status() of the view, now
controllerStatus == MycroftController_status(m_reconnectTimer, m_webSocket)
viewStatus == AbstractSkillView_status(m_guiReconnectTimer, m_guiWebSocket)

\* The view while one step runs: its socket, timer and url, and what the
\* step did so far (the statuses notified to it, the status of the
\* controller at each open() of a valid url, whether close() was called,
\* whether an active timer was stopped, whether a valid url was cleared).
View ==
    [sock |-> m_guiWebSocket, timer |-> m_guiReconnectTimer, url |-> m_url,
     notified |-> <<>>, opens |-> {}, closed |-> FALSE, stopped |-> FALSE,
     cleared |-> FALSE]

\* the second stateChanged lambda, which never starts the timer
onGuiStateChanged_noRestart(g, state, ctrl) ==
    IF g.sock = state THEN g ELSE [g EXCEPT !.sock = state]

\* QWebSocket sets its state and emits stateChanged when it differs; the
\* second stateChanged lambda of the view starts the reconnect timer
onGuiStateChanged(g, state, ctrl) ==
    IF g.sock = state
    THEN g
    ELSE [g EXCEPT !.sock = state,
                   !.timer = IF state = "UnconnectedState" /\ g.url # "" /\ ctrl = "Open"
                             THEN TRUE
                             ELSE @]

\* the connected lambda of the view
onGuiConnected(g) ==
    [g EXCEPT !.timer = FALSE, !.stopped = g.timer]

\* m_guiWebSocket->close(): nothing on an unconnected socket; a connected
\* one goes to ClosingState; the socket is unconnected before close()
\* returns (sync) or at a later GuiDisconnected
guiClose(g, sync, ctrl) ==
    LET called == [g EXCEPT !.closed = TRUE]
        closing == IF g.sock = "ConnectedState"
                   THEN onGuiStateChanged(called, "ClosingState", ctrl)
                   ELSE called
    IN  IF g.sock = "UnconnectedState" THEN called
        ELSE IF sync THEN onGuiStateChanged(closing, "UnconnectedState", ctrl)
        ELSE closing

\* m_guiWebSocket->open(url): an error and nothing else for a url that is
\* not valid; otherwise a new connection attempt
guiOpen(g, url, ctrl) ==
    IF url = ""
    THEN g
    ELSE [onGuiStateChanged(g, "ConnectingState", ctrl) EXCEPT !.opens = @ \cup {ctrl}]

\* the socketStatusChanged lambda of the view without m_url = QUrl()
onSocketStatusChanged_keepingUrl(g, ctrl, sync) ==
    LET n == [g EXCEPT !.notified = Append(@, ctrl)]
    IN  IF ctrl = "Open"
        THEN IF n.url # ""
             THEN guiOpen(guiClose(n, sync, ctrl), n.url, ctrl)
             ELSE n
        ELSE IF AbstractSkillView_status(n.timer, n.sock) # "Open"
        THEN guiClose(n, sync, ctrl)
        ELSE n

\* the socketStatusChanged lambda of the view; ctrl is m_controller->status()
onSocketStatusChanged(g, ctrl, sync) ==
    LET n == [g EXCEPT !.notified = Append(@, ctrl)]
    IN  IF ctrl = "Open"
        THEN IF n.url # ""
             THEN guiOpen(guiClose(n, sync, ctrl), n.url, ctrl)
             ELSE n
        ELSE IF AbstractSkillView_status(n.timer, n.sock) # "Open"
        THEN [guiClose(n, sync, ctrl) EXCEPT !.url = "",
                                             !.cleared = @ \/ n.url # ""]
        ELSE n

\* the timeout lambda of the view's reconnect timer
onGuiReconnectTimeout(g, ctrl, sync) ==
    guiOpen(guiClose(g, sync, ctrl), g.url, ctrl)

\* AbstractSkillView::setUrl
setUrl(g, url, ctrl, sync) ==
    IF g.url = url
    THEN g
    ELSE LET u == [g EXCEPT !.url = url]
         IN  IF ctrl = "Open"
             THEN guiOpen(guiClose(u, sync, ctrl), url, ctrl)
             ELSE u

\* the view and the record of the step, after the step
Stepped(name, g) ==
    /\ m_guiWebSocket' = g.sock
    /\ m_guiReconnectTimer' = g.timer
    /\ m_url' = g.url
    /\ ev' = [NoEv EXCEPT !.name = name, !.notified = g.notified, !.opens = g.opens,
                          !.closed = g.closed, !.stopped = g.stopped,
                          !.cleared = g.cleared]
    /\ UNCHANGED session
    /\ UNCHANGED assistant

primary == <<m_webSocket, m_reconnectTimer, started>>

\* MycroftController::start
Start ==
    /\ started < MaxStarts
    /\ started' = started + 1
    /\ m_reconnectTimer' = TRUE
    /\ UNCHANGED m_webSocket
    /\ \E sync \in BOOLEAN :
          Stepped("start",
                  onSocketStatusChanged(View,
                      MycroftController_status(TRUE, m_webSocket), sync))

\* the timeout lambda of the controller's reconnect timer: open() makes a
\* new connection attempt, and onStatusChanged notifies when the state changed
ReconnectTimeout ==
    /\ m_reconnectTimer
    /\ m_webSocket' = "ConnectingState"
    /\ UNCHANGED <<m_reconnectTimer, started>>
    /\ \E sync \in BOOLEAN :
          Stepped("reconnectTimeout",
                  IF m_webSocket = "ConnectingState"
                  THEN View
                  ELSE onSocketStatusChanged(View,
                           MycroftController_status(TRUE, "ConnectingState"), sync))

\* the handshake succeeded: stateChanged (onStatusChanged), then connected
\* (onConnected)
OnConnected ==
    /\ m_webSocket = "ConnectingState"
    /\ m_webSocket' = "ConnectedState"
    /\ m_reconnectTimer' = FALSE
    /\ UNCHANGED started
    /\ \E s1 \in BOOLEAN, s2 \in BOOLEAN :
          LET g1 == onSocketStatusChanged(View,
                        MycroftController_status(m_reconnectTimer, "ConnectedState"), s1)
              g2 == onSocketStatusChanged(g1,
                        MycroftController_status(FALSE, "ConnectedState"), s2)
          IN  Stepped("connected", g2)

\* the primary socket starts closing: onStatusChanged
OnClosing ==
    /\ m_webSocket = "ConnectedState"
    /\ m_webSocket' = "ClosingState"
    /\ UNCHANGED <<m_reconnectTimer, started>>
    /\ \E sync \in BOOLEAN :
          Stepped("closing",
                  onSocketStatusChanged(View,
                      MycroftController_status(m_reconnectTimer, "ClosingState"), sync))

\* the primary socket is gone: onStatusChanged, then closed
OnDisconnected ==
    /\ m_webSocket # "UnconnectedState"
    /\ m_webSocket' = "UnconnectedState"
    /\ UNCHANGED <<m_reconnectTimer, started>>
    /\ \E sync \in BOOLEAN :
          Stepped("disconnected",
                  onSocketStatusChanged(View,
                      MycroftController_status(m_reconnectTimer, "UnconnectedState"), sync))

\* MycroftController::sendText, through sendRequest
SendText ==
    /\ ev' = [NoEv EXCEPT !.name = "sendText",
                          !.sent = (m_webSocket = "ConnectedState")]
    /\ UNCHANGED <<primary, m_guiWebSocket, m_guiReconnectTimer, m_url, session>>
    /\ UNCHANGED assistant

\* AbstractSkillView::setUrl called by the application
SetUrl ==
    /\ \E url \in GuiUrls \cup {""}, sync \in BOOLEAN :
          Stepped("setUrl", setUrl(View, url, controllerStatus, sync))
    /\ UNCHANGED primary

\* the view's reconnect timer fires
GuiReconnectTimeout ==
    /\ m_guiReconnectTimer
    /\ \E sync \in BOOLEAN :
          Stepped("guiReconnectTimeout",
                  onGuiReconnectTimeout(View, controllerStatus, sync))
    /\ UNCHANGED primary

\* the handshake of the gui socket succeeded: stateChanged, then connected
GuiConnected ==
    /\ m_guiWebSocket = "ConnectingState"
    /\ Stepped("guiConnected",
               onGuiConnected(onGuiStateChanged(View, "ConnectedState", controllerStatus)))
    /\ UNCHANGED primary

\* the gui socket starts closing
GuiClosing ==
    /\ m_guiWebSocket = "ConnectedState"
    /\ Stepped("guiClosing", onGuiStateChanged(View, "ClosingState", controllerStatus))
    /\ UNCHANGED primary

\* the gui socket is gone: refused, dropped, or a close() completed
GuiDisconnected ==
    /\ m_guiWebSocket # "UnconnectedState"
    /\ Stepped("guiDisconnected",
               onGuiStateChanged(View, "UnconnectedState", controllerStatus))
    /\ UNCHANGED primary

NextConn ==
    \/ Start
    \/ ReconnectTimeout
    \/ OnConnected
    \/ OnClosing
    \/ OnDisconnected
    \/ SendText
    \/ SetUrl
    \/ GuiReconnectTimeout
    \/ GuiConnected
    \/ GuiClosing
    \/ GuiDisconnected

SpecConn == Init /\ [][NextConn]_vars

\* the view's timer keeps firing while it is active, and a connection
\* attempt made again and again is accepted in the end
SpecConnLive ==
    SpecConn /\ WF_vars(GuiReconnectTimeout) /\ SF_vars(GuiConnected)

----------------------------------------------------------------------------
(* MycroftController::onTextMessageReceived                                *)

\* at most this many text messages arrive on the primary socket
MaxFrames == 3

\* Strings whose characters matter are sequences of code points:
\* "" , "w" , "e acute" , "A tilde, copyright sign" , a CJK character
Names == {<<>>, <<119>>, <<233>>, <<195, 169>>, <<22825>>}

\* QString::toLatin1(): one byte per character, '?' for a character that
\* Latin-1 does not have
toLatin1(s) == [i \in 1 .. Len(s) |-> IF s[i] < 256 THEN s[i] ELSE 63]

\* a continuation byte of UTF-8
isContinuation(bytes, i) == i <= Len(bytes) /\ bytes[i] >= 128 /\ bytes[i] <= 191

\* The UTF-8 decoder of the JSON parser: the code points of the bytes, or
\* <<-1>> when the bytes are not UTF-8.
RECURSIVE fromUtf8(_, _, _)
fromUtf8(bytes, i, acc) ==
    IF i > Len(bytes) THEN acc
    ELSE IF bytes[i] < 128
    THEN fromUtf8(bytes, i + 1, Append(acc, bytes[i]))
    ELSE IF /\ bytes[i] >= 194 /\ bytes[i] <= 223
            /\ isContinuation(bytes, i + 1)
    THEN fromUtf8(bytes, i + 2,
                  Append(acc, (bytes[i] - 192) * 64 + (bytes[i + 1] - 128)))
    ELSE IF /\ bytes[i] >= 224 /\ bytes[i] <= 239
            /\ isContinuation(bytes, i + 1) /\ isContinuation(bytes, i + 2)
            /\ (bytes[i] - 224) * 4096 + (bytes[i + 1] - 128) * 64 >= 2048
    THEN fromUtf8(bytes, i + 3,
                  Append(acc, (bytes[i] - 224) * 4096 + (bytes[i + 1] - 128) * 64
                                  + (bytes[i + 2] - 128)))
    ELSE <<-1>>

\* a text message of the primary socket: whether its text is a JSON
\* object, its "type" and its data.name
NullDocument == [json |-> FALSE, type |-> "", name |-> <<>>]
TextMessage(type, name) == [json |-> TRUE, type |-> type, name |-> name]

\* QJsonDocument::fromJson(message.toLatin1()): the null document when the
\* text is no JSON or its bytes are not UTF-8
fromJson(message) ==
    LET decoded == fromUtf8(toLatin1(message.name), 1, <<>>)
    IN  IF ~message.json \/ decoded = <<-1>>
        THEN NullDocument
        ELSE [message EXCEPT !.name = decoded]

\* the types of the classification, and types the handler does not know
HandledByController ==
    {"intent_failure",
     "recognizer_loop:audio_output_start", "recognizer_loop:audio_output_end",
     "recognizer_loop:record_begin", "recognizer_loop:record_end",
     "mycroft.speech.recognition.unknown",
     "mycroft.skill.handler.start", "mycroft.skill.handler.complete",
     "speak", "metadata"}

PrimaryTypes ==
    HandledByController
        \cup {"", "enclosure.mouth.reset", "mycroft-date-time.mycroftai:timeskill",
              "mycroft.mic.listen"}

\* type.startsWith(prefix), for the types of the model
startsWith(type, prefix) ==
    \/ prefix = "enclosure" /\ type = "enclosure.mouth.reset"
    \/ prefix = "mycroft-date" /\ type = "mycroft-date-time.mycroftai:timeskill"

\* the messages that arrive
TextMessages ==
    {[NullDocument EXCEPT !.type = "speak"]}
        \cup {TextMessage(type, <<>>) : type \in PrimaryTypes}
        \cup {TextMessage("mycroft.skill.handler.start", name) : name \in Names}
        \cup {TextMessage("recognizer_loop:record_begin", <<233>>),
              TextMessage("recognizer_loop:audio_output_start", <<22825>>)}

\* the controller while the handler runs
Assistant ==
    [isListening |-> m_isListening, isSpeaking |-> m_isSpeaking,
     currentSkill |-> m_currentSkill, signals |-> {}]

\* MycroftController::onTextMessageReceived
onTextMessageReceived(a, message) ==
    LET doc == fromJson(message)
        type == doc.type
    IN  IF startsWith(type, "enclosure") \/ startsWith(type, "mycroft-date")
        THEN a
        ELSE IF type = "intent_failure"
        THEN [a EXCEPT !.isListening = FALSE,
                       !.signals = {"isListeningChanged", "notUnderstood"}]
        ELSE IF type = "recognizer_loop:audio_output_start"
        THEN [a EXCEPT !.isSpeaking = TRUE, !.signals = {"isSpeakingChanged"}]
        ELSE IF type = "recognizer_loop:audio_output_end"
        THEN [a EXCEPT !.isSpeaking = FALSE, !.signals = {"isSpeakingChanged"}]
        ELSE IF type = "recognizer_loop:record_begin"
        THEN [a EXCEPT !.isListening = TRUE, !.signals = {"isListeningChanged"}]
        ELSE IF type = "recognizer_loop:record_end"
        THEN [a EXCEPT !.isListening = FALSE, !.signals = {"isListeningChanged"}]
        ELSE IF type = "mycroft.speech.recognition.unknown"
        THEN [a EXCEPT !.signals = {"notUnderstood"}]
        ELSE IF type = "mycroft.skill.handler.start"
        THEN [a EXCEPT !.currentSkill = doc.name, !.signals = {"currentSkillChanged"}]
        ELSE IF type = "mycroft.skill.handler.complete"
        THEN [a EXCEPT !.currentSkill = <<>>, !.signals = {"currentSkillChanged"}]
        ELSE IF type = "speak"
        THEN [a EXCEPT !.signals = {"fallbackTextRecieved"}]
        ELSE IF type = "metadata"
        THEN [a EXCEPT !.signals = {"skillDataRecieved"}]
        ELSE a

\* textMessageReceived of the primary socket, emitted while it is connected
OnTextMessageReceived ==
    /\ m_webSocket = "ConnectedState"
    /\ Len(received) < MaxFrames
    /\ \E message \in TextMessages :
          LET a == onTextMessageReceived(Assistant, message)
          IN  /\ m_isListening' = a.isListening
              /\ m_isSpeaking' = a.isSpeaking
              /\ m_currentSkill' = a.currentSkill
              /\ received' = Append(received, message)
              /\ ev' = [NoEv EXCEPT !.name = "textMessageReceived",
                                    !.signals = a.signals]
    /\ UNCHANGED <<primary, m_guiWebSocket, m_guiReconnectTimer, m_url, session>>

NextPrimary ==
    \/ OnTextMessageReceived
    \/ SendText

\* the primary socket connected, receiving and sending
SpecPrimary == InitOpen /\ [][NextPrimary]_vars

----------------------------------------------------------------------------
(* The claims                                                              *)

\* the handler runs on the frame of the unprimed state
HandlerStep == pc = "recv" /\ pc' # "recv"

\* the frame is a message of that type which the decoder accepts
IsMessage(f, type) == f.valid /\ f.type = type

IsListMessage(f, type) == IsMessage(f, type) /\ f.namespace = ActiveSkillsNamespace

Active == Range(m_skills)

Registered == {k \in DelegateKeys : m_delegates[k] > 0}

\* C1: a mycroft.session.remove on a list of length L is accepted exactly
\* when 0 <= position <= L-1 and 0 <= items_number <= L-position; accepted, it
\* removes the items_number entries from position on; otherwise the list is
\* left as it was.
C1_RemoveAcceptsSpecRange ==
    [][(HandlerStep /\ IsListMessage(frame, "mycroft.session.remove")) =>
        LET L == Len(m_skills)
            position == frame.position
            itemsNumber == frame.items_number
        IN  IF /\ 0 <= position /\ position <= L - 1
               /\ 0 <= itemsNumber /\ itemsNumber <= L - position
            THEN /\ out'.accepted
                 /\ m_skills' = SubSeq(m_skills, 1, position)
                                    \o SubSeq(m_skills, position + itemsNumber + 1, L)
            ELSE /\ ~out'.accepted
                 /\ m_skills' = m_skills]_vars

\* C2: every skill id that has session data is in the active skills list;
\* so a skill that was just removed has none.
C2_SessionDataOnlyForActive == DOMAIN m_skillData \subseteq Active

\* a remove has just dropped the session data of a skill it removed
C2_Witness ==
    /\ pc = "done"
    /\ IsListMessage(frame, "mycroft.session.remove")
    /\ out.erased # {}
    /\ out.erased \cap Active = {}
    /\ out.erased \cap DOMAIN m_skillData = {}

\* C3: every registered delegate belongs to a skill of the active skills
\* list, also after a mycroft.gui.show for a skill that is not in it.
C3_DelegatesOnlyForActive == \A k \in Registered : k[1] \in Active

C5_LengthIsNetOfRequests ==
    [][HandlerStep =>
        LET L == Len(m_skills)
            skillList == jsonModelToStringList("skill_id", frame.skills)
        IN  /\ (/\ IsListMessage(frame, "mycroft.session.insert")
                /\ 0 <= frame.position /\ frame.position <= L
                /\ skillList # <<>>)
                   => Len(m_skills') = L + Len(newSkills(skillList, Active))
            /\ (/\ IsListMessage(frame, "mycroft.session.remove")
                /\ 0 <= frame.position /\ frame.position <= L - 1
                /\ 0 <= frame.items_number /\ frame.items_number <= L - frame.position)
                   => Len(m_skills') = L - frame.items_number
            /\ (/\ IsMessage(frame, "mycroft.session.move")
                /\ 0 <= frame.from /\ frame.from <= L - 1
                /\ 0 <= frame.to /\ frame.to <= L - 1
                /\ 0 < frame.items_number /\ frame.items_number <= L - frame.from)
                   => Len(m_skills') = L]_vars

\* the value of the property, or that it is not set
PropertyOf(skillData, skillId, key) ==
    IF skillId \in DOMAIN skillData /\ key \in DOMAIN skillData[skillId]
    THEN <<skillData[skillId][key]>>
    ELSE <<>>

HasNonObject(value) ==
    value.kind = "array" /\ \E i \in 1 .. Len(value.items) : value.items[i] \notin RowObjects

\* C6: a mycroft.session.set that carries for a property an array with an
\* entry that is no object leaves that property as it was: no row cleared, no
\* prefix inserted, no replacement by the raw array.
C6_CorruptArrayKeepsProperty ==
    [][(HandlerStep /\ IsMessage(frame, "mycroft.session.set")) =>
        \A key \in DOMAIN frame.data :
            HasNonObject(frame.data[key]) =>
                PropertyOf(m_skillData', frame.namespace, key)
                    = PropertyOf(m_skillData, frame.namespace, key)]_vars

\* the frames the claim calls protocol faults, in the state they arrive in
ProtocolFault(f) ==
    LET L == Len(m_skills)
    IN  \/ ~f.valid
        \/ f.type = ""
        \/ f.type \notin HandledTypes
               \cup {"mycroft.session.insert", "mycroft.session.remove"}
        \/ /\ f.type \in {"mycroft.session.set", "mycroft.session.delete",
                          "mycroft.gui.show", "mycroft.events.triggered"}
           /\ f.namespace = ""
        \/ /\ f.type \in {"mycroft.session.set", "mycroft.session.delete", "mycroft.gui.show"}
           /\ f.namespace \notin Active
        \/ /\ f.type = "mycroft.events.triggered"
           /\ f.namespace \notin Active \cup {"system"}
        \/ /\ f.type = "mycroft.session.set"
           /\ DOMAIN f.data = {}
        \/ /\ IsListMessage(f, "mycroft.session.insert")
           /\ \/ f.position < 0
              \/ f.position > L
              \/ jsonModelToStringList("skill_id", f.skills) = <<>>
        \/ /\ IsListMessage(f, "mycroft.session.remove")
           /\ \/ f.position < 0
              \/ f.position > L - 1
              \/ f.items_number < 0
              \/ f.items_number > L - f.position
        \/ /\ f.type = "mycroft.session.move"
           /\ \/ f.from < 0
              \/ f.from > L - 1
              \/ f.to < 0
              \/ f.to > L - 1
              \/ f.items_number <= 0
              \/ f.items_number > L - f.from

\* C7: a frame that is a protocol fault leaves the active skills list, the
\* session data and the delegates as they were, and the handler returns.
C7_FaultChangesNothing ==
    [][(HandlerStep /\ ProtocolFault(frame)) => (core' = core /\ pc' = "done")]_vars

\* C8: a mycroft.session.set for a namespace that is no active skill, or with
\* empty data, creates no session data entry and changes none.
C8_SetOfInactiveOrEmptyChangesNothing ==
    [][(/\ HandlerStep
        /\ IsMessage(frame, "mycroft.session.set")
        /\ (frame.namespace \notin Active \/ DOMAIN frame.data = {}))
            => m_skillData' = m_skillData]_vars

\* a set with data for a skill that is not active was handled while another
\* skill had session data
C8_Witness ==
    /\ pc = "done"
    /\ IsMessage(frame, "mycroft.session.set")
    /\ frame.namespace # ""
    /\ frame.namespace \notin Active
    /\ DOMAIN frame.data # {}
    /\ DOMAIN m_skillData # {}
    /\ frame.namespace \notin DOMAIN m_skillData

\* C9: a mycroft.gui.show for a pair that has a delegate instantiates
\* nothing, leaves the delegates as they are and emits currentRequested on
\* the delegate of the pair; the show that registers the delegate leaves
\* exactly one for the pair and emits currentRequested on it; and no frame
\* but a remove unregisters a delegate.  So two shows of one pair give one
\* delegate, one instantiation and two currentRequested.
C9_SecondShowReusesDelegate ==
    [][HandlerStep =>
        /\ \A k \in DelegateKeys : m_delegates[k] <= 1
        /\ (~IsListMessage(frame, "mycroft.session.remove"))
               => \A k \in Registered : m_delegates'[k] = m_delegates[k]
        /\ (IsMessage(frame, "mycroft.gui.show") /\ frame.namespace # "" /\ frame.gui_url # "")
               => LET k == <<frame.namespace, frame.gui_url>>
                  IN  /\ k \in Registered =>
                          /\ m_delegates' = m_delegates
                          /\ out'.instantiated = {}
                          /\ out'.currentRequested = {k}
                      /\ (k \notin Registered /\ m_delegates'[k] > 0) =>
                          /\ m_delegates'[k] = 1
                          /\ out'.instantiated = {k}
                          /\ out'.currentRequested = {k}]_vars

\* a show found the delegate of its pair and brought it to the foreground
C9_Witness ==
    /\ pc = "done"
    /\ IsMessage(frame, "mycroft.gui.show")
    /\ out.accepted
    /\ out.instantiated = {}
    /\ out.currentRequested = {<<frame.namespace, frame.gui_url>>}
    /\ m_delegates[<<frame.namespace, frame.gui_url>>] = 1

\* C10: a mycroft.events.triggered with an event name reaches every
\* registered delegate when the namespace is "system", the delegates of the
\* skill and no other when the namespace is an active skill, and no delegate
\* otherwise or without an event name; no other frame delivers an event.
C10_EventReachesItsDelegates ==
    [][HandlerStep =>
        IF ~IsMessage(frame, "mycroft.events.triggered") \/ frame.event_name = ""
        THEN out'.event = {}
        ELSE IF frame.namespace = "system"
        THEN out'.event = Registered
        ELSE IF frame.namespace \in Active
        THEN out'.event = {k \in Registered : k[1] = frame.namespace}
        ELSE out'.event = {}]_vars

\* an event for an active skill reached its delegates while another skill
\* had a delegate, which it did not reach
C10_Witness ==
    /\ pc = "done"
    /\ IsMessage(frame, "mycroft.events.triggered")
    /\ frame.namespace \in Active
    /\ Cardinality(out.event) = Cardinality(Urls)
    /\ \A k \in out.event : k[1] = frame.namespace
    /\ \E k \in Registered : k[1] # frame.namespace

----------------------------------------------------------------------------
(* Claims about the two connections                                        *)

\* a step of the named kind has just been taken
Took(name) == ev'.name = name

\* the status the transport state alone stands for
TransportStatus(state) ==
    CASE state = "UnconnectedState" -> "Closed"
      [] state = "ConnectingState" -> "Connecting"
      [] state = "ConnectedState" -> "Open"
      [] state = "ClosingState" -> "Closing"

\* C11: for both connections the derived status is Connecting whenever the
\* connection's reconnect timer is armed, whatever the transport state, and
\* follows the transport state (Closed, Connecting, Open, Closing) when it
\* is not; with the timer armed until the connect event and stopped by it,
\* the statuses over unconnected, connecting and connected are Connecting,
\* Connecting, Open.
C11_StatusFromTimerAndTransport ==
    [][/\ m_reconnectTimer' => controllerStatus' = "Connecting"
       /\ ~m_reconnectTimer' => controllerStatus' = TransportStatus(m_webSocket')
       /\ m_guiReconnectTimer' => viewStatus' = "Connecting"
       /\ ~m_guiReconnectTimer' => viewStatus' = TransportStatus(m_guiWebSocket')
       /\ Took("reconnectTimeout") =>
             controllerStatus = "Connecting" /\ controllerStatus' = "Connecting"
       /\ Took("connected") =>
             /\ controllerStatus = "Connecting"
             /\ controllerStatus' = "Open"
             /\ ev'.notified = <<"Connecting", "Open">>
       /\ Took("guiConnected") => viewStatus = "Connecting" /\ viewStatus' = "Open"
      ]_vars

\* the primary socket connected with the timer armed: the view was told
\* Connecting for the connected transport, then Open once the timer stopped
C11_Witness ==
    /\ ev.name = "connected"
    /\ ev.notified = <<"Connecting", "Open">>
    /\ m_webSocket = "ConnectedState"
    /\ ~m_reconnectTimer
    /\ controllerStatus = "Open"

\* C12: sendText transmits the utterance if and only if the derived status
\* of the primary connection is Open, also after start() was called again
\* on a connected transport.
C12_SendsIffStatusOpen ==
    [][Took("sendText") => (ev'.sent <=> controllerStatus = "Open")]_vars

\* C13: a second start() changes nothing: the timer, the derived status and
\* the socket are what they were after the first.
C13_StartIsIdempotent ==
    [][Took("start") /\ started >= 1 =>
          /\ m_reconnectTimer' = m_reconnectTimer
          /\ controllerStatus' = controllerStatus
          /\ m_webSocket' = m_webSocket]_vars

\* C14: the primary reconnect timer is stopped when the primary socket
\* connects and armed again when a connected primary socket drops.
C14_PrimaryTimerRearmedOnDrop ==
    [][/\ Took("connected") => ~m_reconnectTimer'
       /\ m_webSocket = "ConnectedState" /\ Took("disconnected") => m_reconnectTimer'
      ]_vars

\* C15: whenever the primary status drops below Open the view closes its
\* socket and clears its url, whatever the state of its own socket (stated
\* for the drops the primary socket itself causes, by closing or by
\* disconnecting).
C15_ViewClosesWhenPrimaryDrops ==
    [][/\ controllerStatus = "Open"
       /\ controllerStatus' # "Open"
       /\ Took("closing") \/ Took("disconnected")
       => ev'.closed /\ m_url' = ""]_vars

\* C16: every open() of the gui socket with a valid url is made while the
\* status of the primary connection is Open.
C16_ViewOpensOnlyWhilePrimaryOpen ==
    ev.opens \subseteq {"Open"}

\* the gui socket is down with its timer armed, in a state where the view
\* is meant to reconnect
GuiDown ==
    /\ m_guiReconnectTimer
    /\ m_url # ""
    /\ controllerStatus = "Open"

\* the gui socket is connected and its timer stopped
GuiUp == m_guiWebSocket = "ConnectedState" /\ ~m_guiReconnectTimer

\* C17: when the gui socket becomes unconnected while the primary status is
\* Open and the url is valid, the view's timer is armed; a tick of the
\* timer, in such a state, makes an open attempt; the timer is stopped when
\* the gui socket connects; and from a state with the timer armed the gui
\* socket gets connected with its timer stopped, unless the primary status
\* leaves Open or the url is cleared.
C17_ViewReconnectsWhilePrimaryOpen ==
    /\ [][/\ /\ m_guiWebSocket # "UnconnectedState"
             /\ m_guiWebSocket' = "UnconnectedState"
             /\ controllerStatus' = "Open"
             /\ m_url' # ""
             => m_guiReconnectTimer'
          /\ Took("guiReconnectTimeout") /\ GuiDown =>
                ev'.opens = {"Open"} /\ m_guiWebSocket' = "ConnectingState"
          /\ Took("guiConnected") => GuiUp'
         ]_vars
    /\ (GuiDown ~> (GuiUp \/ controllerStatus # "Open" \/ m_url = ""))

\* the gui socket connected on an attempt made while its timer was armed,
\* the primary status being Open, and the timer was stopped
C17_Witness ==
    /\ ev.name = "guiConnected"
    /\ ev.stopped
    /\ GuiUp
    /\ m_url # ""
    /\ controllerStatus = "Open"

----------------------------------------------------------------------------
(* Claims about show failures, session.delete and row collections          *)

\* C18: a mycroft.gui.show whose template fails to give a Delegate (load
\* error, or an object that is no Delegate) registers nothing, changes
\* nothing and does not crash the session, and a show for a pair with no
\* registered delegate attempts the instantiation (again).  Stated for the
\* shows of an active skill.
C18_FailedShowIsHarmless ==
    [][(/\ HandlerStep
        /\ IsMessage(frame, "mycroft.gui.show")
        /\ ShowAccepted(frame.namespace, frame.gui_url)
        /\ frame.namespace \in Active
        /\ m_delegates[<<frame.namespace, frame.gui_url>>] = 0)
       => /\ out'.instantiated = {<<frame.namespace, frame.gui_url>>}
          /\ pc' # "crashed"
          /\ m_delegates'[<<frame.namespace, frame.gui_url>>] = 0 =>
                core' = core /\ pc' = "done"]_vars

\* the property is an array of row objects only, of any length
IsRowArray(value) ==
    value.kind = "array" /\ \A i \in 1 .. Len(value.items) : value.items[i] \in RowObjects

\* C19: a mycroft.session.delete leaves the session data as it is, creating
\* no entry, when the skill is not active or the property is not set for it;
\* otherwise it removes that property from the entry of that skill and
\* nothing else.
C19_DeleteRemovesOnlyASetProperty ==
    [][(HandlerStep /\ IsMessage(frame, "mycroft.session.delete")) =>
        IF \/ frame.namespace \notin Active
           \/ PropertyOf(m_skillData, frame.namespace, frame.property) = <<>>
        THEN m_skillData' = m_skillData
        ELSE m_skillData' =
                [m_skillData EXCEPT ![frame.namespace] =
                    [k \in DOMAIN @ \ {frame.property} |-> @[k]]]]_vars

\* C20: after an accepted mycroft.session.set a property sent as
\* an array of row objects of any length holds the collection of these rows
\* in their order, and a collection the property held before is the one kept
\* (cleared and refilled), not deleted and not replaced.
C20_RowArrayOfAnyLength ==
    [][(/\ HandlerStep
        /\ IsMessage(frame, "mycroft.session.set")
        /\ frame.namespace \in Active) =>
        \A key \in DOMAIN frame.data :
            IsRowArray(frame.data[key]) =>
                /\ PropertyOf(m_skillData', frame.namespace, key)
                       = <<Model(frame.data[key].items)>>
                /\ PropertyOf(m_skillData, frame.namespace, key) # <<>>
                   /\ PropertyOf(m_skillData, frame.namespace, key)[1].kind = "model"
                   => /\ key \in out'.cleared
                      /\ key \notin out'.created
                      /\ key \notin out'.deleted]_vars

----------------------------------------------------------------------------
(* Claims about the assistant state and the url of the view                *)

\* the position in `received' of the last message that is a JSON object of
\* one of the types, 0 when there is none
LastOf(types) ==
    LET at == {i \in 1 .. Len(received) : received[i].json /\ received[i].type \in types}
    IN  IF at = {} THEN 0 ELSE CHOOSE i \in at : \A j \in at : j <= i

\* a frame that is undecodable, of a type the table does not have, or noise
Ignored(message) ==
    \/ ~message.json
    \/ message.type \notin HandledByController

\* C21: after any sequence of frames of the primary socket, isListening is
\* what the last of intent_failure (false), record_begin (true), record_end
\* (false) set, isSpeaking what the last of audio_output_start (true),
\* audio_output_end (false) set, currentSkill the data.name of the last
\* mycroft.skill.handler.start unless a mycroft.skill.handler.complete came
\* after it (then none), each as constructed when no such frame came; and a
\* frame that is undecodable, of an unknown type or of a type prefixed
\* enclosure or mycroft-date emits no signal.
C21_AssistantStateIsTheFold ==
    /\ LET i == LastOf({"intent_failure", "recognizer_loop:record_begin",
                        "recognizer_loop:record_end"})
       IN  m_isListening = (i > 0 /\ received[i].type = "recognizer_loop:record_begin")
    /\ LET i == LastOf({"recognizer_loop:audio_output_start",
                        "recognizer_loop:audio_output_end"})
       IN  m_isSpeaking = (i > 0 /\ received[i].type = "recognizer_loop:audio_output_start")
    /\ LET i == LastOf({"mycroft.skill.handler.start", "mycroft.skill.handler.complete"})
       IN  m_currentSkill =
              IF i > 0 /\ received[i].type = "mycroft.skill.handler.start"
              THEN received[i].name
              ELSE <<>>
    /\ ev.name = "textMessageReceived" /\ Ignored(received[Len(received)]) =>
          ev.signals = {}

\* C22: a step whose first status notification reaches the view while the
\* primary status is not Open and the view's own status is not Open leaves
\* the url of the view cleared; only setUrl makes a cleared url valid again;
\* so a notification step opens the gui socket only when it ends on Open
\* with a url that was valid before it, set since the last clearing.
C22_NotificationsClearTheUrl ==
    [][/\ /\ ev'.notified # <<>>
          /\ ev'.notified[1] # "Open"
          /\ viewStatus # "Open"
          => m_url' = ""
       /\ m_url = "" /\ m_url' # "" => Took("setUrl")
       /\ ev'.notified # <<>> /\ ev'.opens # {} =>
             /\ ev'.notified[Len(ev'.notified)] = "Open"
             /\ m_url # ""
             /\ m_url' = m_url
      ]_vars

\* start() was called after setUrl: its notification cleared the valid url
C22_Witness ==
    /\ ev.name = "start"
    /\ ev.notified = <<"Connecting">>
    /\ ev.cleared
    /\ m_url = ""

====
